---- MODULE Spec2Model ----
(***************************************************************************)
(* MaterialProcessor of importers/splatoon/material_processor.py: the      *)
(* base-name derivation, the texture lookup and the four import recipes    *)
(* that extend a material's shader node graph.                             *)
(*                                                                         *)
(* Strings are sequences of one-character strings, so that lower(),        *)
(* re.search, slicing, split and basename are computed and not assumed.    *)
(* A node is named by its position in `nodes` (0 is Python's None/False);  *)
(* a socket by its position in the socket list of its node's type; an      *)
(* image by its position in `images`.                                      *)
(***************************************************************************)
EXTENDS Integers, Sequences, FiniteSets

VARIABLES
    phase,            \* "new" before __init__ has run, "ready" after
    material,         \* [name]: the material's name
    nodes,            \* material.node_tree.nodes, in iteration order
    links,            \* material.node_tree.links
    images,           \* bpy.data.images
    dir,              \* the directory self.file_path names, as os.listdir sees it
    base_name,        \* self.base_name
    principled_node,  \* self.principled_node (0: None)
    call,             \* the method called last and its arguments
    ret,              \* what import_texture returned last (0: False)
    err,              \* the exception the last call raised ("none": it returned)
    created,          \* how many nodes the processor has added to the graph
    prev              \* nodes, links and images as they were before the last call

vars == <<phase, material, nodes, links, images, dir, base_name,
          principled_node, call, ret, err, created, prev>>

-----------------------------------------------------------------------------
(* Strings *)

UpperCase == <<"A","B","C","D","E","F","G","H","I","J","K","L","M",
               "N","O","P","Q","R","S","T","U","V","W","X","Y","Z">>
LowerCase == <<"a","b","c","d","e","f","g","h","i","j","k","l","m",
               "n","o","p","q","r","s","t","u","v","w","x","y","z">>

\* Every character a name of the model is written with
Chars ==
    {UpperCase[i] : i \in 1..26} \cup {LowerCase[i] : i \in 1..26}
        \cup {"_", ".", "/", "0", "1", "2"}

LowerChar(c) ==
    IF \E i \in 1..26 : UpperCase[i] = c
    THEN LowerCase[CHOOSE i \in 1..26 : UpperCase[i] = c]
    ELSE c

LowerTable == [c \in Chars |-> LowerChar(c)]

\* str.lower()
Lower(s) == [i \in 1..Len(s) |-> LowerTable[s[i]]]

\* The positions (1-based) at which pattern.search(s) can match with
\* re.IGNORECASE; re.search returns the leftmost one.
MatchStarts(pat, s) ==
    {i \in 1..(Len(s) - Len(pat) + 1) :
        Lower(SubSeq(s, i, i + Len(pat) - 1)) = Lower(pat)}

Least(S) == CHOOSE x \in S : \A y \in S : x <= y

\* re.search without re.IGNORECASE
Search_case_sensitive(pat, s) ==
    LET hit == {i \in 1..(Len(s) - Len(pat) + 1) : SubSeq(s, i, i + Len(pat) - 1) = pat}
    IN  IF hit = {} THEN 0 ELSE Least(hit)

\* match.start() + 1 of re.search, 0 when there is no match
Search(pat, s) == IF MatchStarts(pat, s) = {} THEN 0 ELSE Least(MatchStarts(pat, s))

\* os.path.basename: what follows the last "/"
Basename(p) ==
    LET slashes == {i \in 1..Len(p) : p[i] = "/"}
    IN  IF slashes = {} THEN p
        ELSE SubSeq(p, (CHOOSE i \in slashes : \A j \in slashes : j <= i) + 1, Len(p))

\* s.split('.')[0]
SplitDotFirst(s) ==
    LET dots == {i \in 1..Len(s) : s[i] = "."}
    IN  IF dots = {} THEN s ELSE SubSeq(s, 1, Least(dots) - 1)

\* os.path.join(dir_path, file)
PathJoin(d, f) == d \o <<"/">> \o f

\* Python's None for a string-valued result
None == [some |-> FALSE, val |-> <<>>]
Some(s) == [some |-> TRUE, val |-> s]

ALB == <<"_","a","l","b">>
EMM == <<"_","e","m","m">>
EMI == <<"_","e","m","i">>
NRM == <<"_","n","r","m">>
TCL == <<"_","t","c","l">>
MAI == <<"_","m","a","i">>
TRM == <<"_","t","r","m">>
THC == <<"_","t","h","c">>
PNG == <<".","p","n","g">>

\* suffixes = ['_alb', '_emm', '_emi']
suffixes == <<ALB, EMM, EMI>>

-----------------------------------------------------------------------------
(* Construction *)

\* The nodes _find_base_texture looks at: image textures that hold an image.
HasImage(ns, i) == ns[i].type = "TEX_IMAGE" /\ ns[i].image # 0

NodeBasename(ns, ims, i) == Basename(ims[ns[i].image].filepath)

\* The first suffix of `suffixes`, in list order, that matches the name (0: none)
FirstSuffix(name) ==
    LET hit == {k \in 1..Len(suffixes) : Search(suffixes[k], name) # 0}
    IN  IF hit = {} THEN 0 ELSE Least(hit)

\* _find_base_texture: the first node, in iteration order, whose file name
\* matches a suffix decides; the name is cut at the match of the first
\* suffix of the list that matches.
find_base_texture(ns, ims) ==
    LET cand == {i \in 1..Len(ns) :
                    HasImage(ns, i) /\ FirstSuffix(NodeBasename(ns, ims, i)) # 0}
    IN  IF cand = {} THEN None
        ELSE LET name == NodeBasename(ns, ims, Least(cand))
                 k    == FirstSuffix(name)
             IN  Some(SubSeq(name, 1, Search(suffixes[k], name) - 1))

\* _find_base_from_material
find_base_from_material(m) == Some(SplitDotFirst(m.name))

\* Python's `a or b` on optional strings: None and "" are falsy
Or(a, b) == IF a.some /\ a.val # <<>> THEN a ELSE b

\* self.base_name of __init__
BaseNameOf(m, ns, ims) == Or(find_base_texture(ns, ims), find_base_from_material(m))

\* _find_principled_node
find_principled_node(ns) ==
    LET cand == {i \in 1..Len(ns) : ns[i].type = "BSDF_PRINCIPLED"}
    IN  IF cand = {} THEN 0 ELSE Least(cand)

-----------------------------------------------------------------------------
(* The host's node graph *)

\* The input and output sockets of each node type the code meets, in the
\* host's order; inputs[k] of the code is position k + 1 here.
Inputs(type) ==
    CASE type = "BSDF_PRINCIPLED"  -> <<"Base Color", "Normal", "Emission Color">>
      [] type = "TEX_IMAGE"        -> <<"Vector">>
      [] type = "NORMAL_MAP"       -> <<"Strength", "Color">>
      [] type = "BUMP"             -> <<"Strength", "Distance", "Height", "Normal">>
      [] type = "MIX_RGB"          -> <<"Fac", "Color1", "Color2">>
      [] type = "RGB"              -> <<>>
      [] type = "BSDF_TRANSLUCENT" -> <<"Color", "Normal">>
      [] type = "MIX_SHADER"       -> <<"Fac", "Shader", "Shader">>
      [] type = "ADD_SHADER"       -> <<"Shader", "Shader">>
      [] type = "OUTPUT_MATERIAL"  -> <<"Surface", "Volume", "Displacement">>

Outputs(type) ==
    CASE type = "BSDF_PRINCIPLED"  -> <<"BSDF">>
      [] type = "TEX_IMAGE"        -> <<"Color", "Alpha">>
      [] type = "NORMAL_MAP"       -> <<"Normal">>
      [] type = "BUMP"             -> <<"Normal">>
      [] type = "MIX_RGB"          -> <<"Color">>
      [] type = "RGB"              -> <<"Color">>
      [] type = "BSDF_TRANSLUCENT" -> <<"BSDF">>
      [] type = "MIX_SHADER"       -> <<"Shader">>
      [] type = "ADD_SHADER"       -> <<"Shader">>
      [] type = "OUTPUT_MATERIAL"  -> <<>>

\* sockets['name']: the first socket of that name (0: KeyError)
SocketIndex(names, name) ==
    LET hit == {i \in 1..Len(names) : names[i] = name}
    IN  IF hit = {} THEN 0 ELSE Least(hit)

\* node.inputs['name'] and node.outputs['name'] of node n of graph g
In(g, n, name)  == SocketIndex(Inputs(g.nodes[n].type), name)
Out(g, n, name) == SocketIndex(Outputs(g.nodes[n].type), name)

\* link.to_socket.name
ToSocketName(g, l) == Inputs(g.nodes[l.to_node].type)[l.to_socket]

\* A graph under construction: the three collections and the exception raised
\* so far. Once an exception is raised every later step of the method is skipped.
Graph(ns, ls, ims) == [nodes |-> ns, links |-> ls, images |-> ims, err |-> "none"]

Raise(g, e) == IF g.err = "none" THEN [g EXCEPT !.err = e] ELSE g

Node(type, image, blend, fac) ==
    [type |-> type, image |-> image, blend |-> blend, fac |-> fac]

\* nodes.new(...) followed by the attribute assignments the code makes on the
\* new node; the new node is Len(nodes) of the result.
NodesNew(g, node) ==
    IF g.err # "none" THEN g ELSE [g EXCEPT !.nodes = Append(@, node)]

Link(f, fs, t, ts) ==
    [from_node |-> f, from_socket |-> fs, to_node |-> t, to_socket |-> ts]

\* links.new(output, input): an input socket holds one link, so the host
\* drops the link that was there. A socket looked up by a name the node does
\* not have (0) has raised KeyError before the call.
LinksNew(g, f, fs, t, ts) ==
    IF g.err # "none" THEN g
    ELSE IF fs = 0 \/ ts = 0 THEN Raise(g, "KeyError")
    ELSE [g EXCEPT !.links =
            {l \in @ : ~(l.to_node = t /\ l.to_socket = ts)} \cup {Link(f, fs, t, ts)}]

\* input.links[0].from_node if input.is_linked else None
LinkedFrom(g, t, ts) ==
    LET hit == {l \in g.links : l.to_node = t /\ l.to_socket = ts}
    IN  IF hit = {} THEN 0 ELSE (CHOOSE l \in hit : TRUE).from_node

-----------------------------------------------------------------------------
(* import_texture *)

\* find_texture_file: every path the loop can return. os.listdir's order is
\* arbitrary, so each file whose lowered name is the lowered expected name
\* can be the first; an unreadable directory raises OSError inside the try.
find_texture_file(d, base, sfx) ==
    IF ~d.readable THEN {None}
    ELSE LET expected_filename == base \o sfx \o PNG
             hit == {f \in d.files : Lower(f.name) = Lower(expected_filename)}
         IN  IF hit = {} THEN {None}
             ELSE {Some(PathJoin(d.path, f.name)) : f \in hit}

\* The pixels bpy.data.images.load reads from a path of the directory
ReadPixels(d, path) ==
    (CHOOSE f \in d.files : PathJoin(d.path, f.name) = path).pixels

\* import_texture that reuses an image already loaded from the same path
import_texture_reuse_image(g, d, texture_path, non_color) ==
    IF g.err # "none" \/ ~texture_path.some THEN [g |-> g, node |-> 0]
    ELSE LET same == {k \in 1..Len(g.images) : g.images[k].filepath = texture_path.val}
             image == [filepath   |-> texture_path.val,
                       colorspace |-> IF non_color THEN "Non-Color" ELSE "sRGB",
                       pixels     |-> ReadPixels(d, texture_path.val)]
             k  == IF same = {} THEN Len(g.images) + 1 ELSE Least(same)
         IN  [g |-> [g EXCEPT !.images = IF same = {} THEN Append(@, image) ELSE @,
                              !.nodes = Append(@, Node("TEX_IMAGE", k, "none", "default"))],
              node |-> Len(g.nodes) + 1]

\* import_texture, after find_texture_file has answered texture_path:
\* the graph and the node returned (0: False)
import_texture(g, d, texture_path, non_color) ==
    IF g.err # "none" \/ ~texture_path.some THEN [g |-> g, node |-> 0]
    ELSE LET image == [filepath   |-> texture_path.val,
                       colorspace |-> IF non_color THEN "Non-Color" ELSE "sRGB",
                       pixels     |-> ReadPixels(d, texture_path.val)]
         IN  [g |-> [g EXCEPT !.images = Append(@, image),
                              !.nodes = Append(@, Node("TEX_IMAGE", Len(g.images) + 1,
                                                       "none", "default"))],
              node |-> Len(g.nodes) + 1]

\* An image as images.load leaves it, in the sRGB colour space
Image(filepath, pixels) ==
    [filepath |-> filepath, colorspace |-> "sRGB", pixels |-> pixels]

\* An image-texture node that holds `image`, as the scene importer leaves it
AddTexture(g, image) ==
    [g EXCEPT !.images = Append(@, image),
              !.nodes = Append(@, Node("TEX_IMAGE", Len(g.images) + 1, "none", "default"))]

-----------------------------------------------------------------------------
(* Method bodies.  A body is the list of its statements, run in order by     *)
(* Run on an environment: the graph, the directory and the local variables   *)
(* (a node, 0 for None or False, Unbound before the first assignment).  A    *)
(* statement carries the tests of the `if`s around it, outermost first; no   *)
(* body assigns to a variable inside a block that tests it, so testing at    *)
(* each statement is testing at the head of the block.                       *)

Unbound == -1

Locals ==
    { "principled_node", "tex_image_node", "normal_map_node", "original_color_node",
      "tcl_node", "mai_node", "mix_color_node", "multiply_node", "white_node",
      "trm_node", "thc_node", "translucent_node", "mix_shader_node",
      "add_shader_node", "output_node", "emission_node", "emission_image",
      "mix_node", "base_color_node" }

Env(g, P, d) ==
    [g |-> g, d |-> d, done |-> FALSE,
     vars |-> [v \in Locals |-> IF v = "principled_node" THEN P ELSE Unbound]]

\* A socket given by name, sockets['name'], or by position, sockets[k]
ByName(name) == [name |-> name, index |-> 0]
ByIndex(k)   == [name |-> "", index |-> k + 1]

Stmt(op) ==
    [op |-> op, cond |-> << >>, var |-> "", from |-> "", to |-> "",
     out |-> ByIndex(0), in |-> ByIndex(0), name |-> "", type |-> "",
     node |-> Node("", 0, "", ""), image |-> Image(<<>>, <<>>),
     path |-> None, non_color |-> FALSE]

\* var = self.import_texture(suffix, non_color), the file lookup answered `path`
ImportI(var, path, non_color) ==
    [Stmt("import") EXCEPT !.var = var, !.path = path, !.non_color = non_color]
\* var = nodes.new(...) and the attributes set on it
NewI(var, node) == [Stmt("new") EXCEPT !.var = var, !.node = node]
\* links.new(from.outputs[out], to.inputs[in])
LinkI(from, out, to, in) ==
    [Stmt("link") EXCEPT !.from = from, !.out = out, !.to = to, !.in = in]
\* an attribute of var is read (var.inputs, var.location)
AttrI(var) == [Stmt("attr") EXCEPT !.var = var]
\* var = from
AssignI(var, from) == [Stmt("assign") EXCEPT !.var = var, !.from = from]
\* var = None
NoneI(var) == [Stmt("none") EXCEPT !.var = var]
\* var = input.links[0].from_node if input.is_linked else None, input = to.inputs[name]
LinkedFromI(var, to, name) ==
    [Stmt("linked_from") EXCEPT !.var = var, !.to = to, !.name = name]
\* for link in links: if link.to_node == to and link.to_socket.name == name
\* [and link.from_node.type == type]: var = link.from_node
FindLinkI(var, to, name, type) ==
    [Stmt("find_link") EXCEPT !.var = var, !.to = to, !.name = name, !.type = type]
\* for node in nodes: if node.type == type: var = node; break
FindNodeI(var, type) == [Stmt("find_node") EXCEPT !.var = var, !.type = type]
\* var = from.image
ImageOfI(var, from) == [Stmt("image_of") EXCEPT !.var = var, !.from = from]
\* if self._is_grayscale_image(var.image): var.image.colorspace_settings.name = 'Non-Color'
NonColorIfGrayI(var) == [Stmt("noncolor_if_gray") EXCEPT !.var = var]
\* return
ReturnI == Stmt("return")
\* an image-texture node the material came with
TextureI(var, image) == [Stmt("texture") EXCEPT !.var = var, !.image = image]

\* The tests of a condition: `x` and `not x`
Is(var)  == [var |-> var, truth |-> TRUE]
Not(var) == [var |-> var, truth |-> FALSE]

\* The statements of `block` under `if cond:`, cond the conjunction of its tests
If(cond, block) ==
    [i \in 1..Len(block) |-> [block[i] EXCEPT !.cond = cond \o @]]

\* The pixel starts range(0, len(pixels), 4) visits, 1-based
PixelStarts(pixels) == {i \in 1..Len(pixels) : (i - 1) % 4 = 0}

\* _is_grayscale_image comparing red with green only
is_grayscale_image_rg(image) ==
    \A i \in PixelStarts(image.pixels) : image.pixels[i] = image.pixels[i + 1]

\* _is_grayscale_image
is_grayscale_image(image) ==
    \A i \in PixelStarts(image.pixels) :
        LET r == image.pixels[i]
            gr == image.pixels[i + 1]
            b == image.pixels[i + 2]
        IN  ~(r # gr \/ gr # b \/ b # r)

\* The links the loops over node_tree.links select: those that end at input
\* `name` of node t and, when a type is asked for, start at a node of it
LinksInto(g, t, name, type) ==
    {l \in g.links : /\ l.to_node = t
                     /\ ToSocketName(g, l) = name
                     /\ type # "" => g.nodes[l.from_node].type = type}

\* The position of a socket among `names`
Socket(names, s) == IF s.index # 0 THEN s.index ELSE SocketIndex(names, s.name)

SetVar(env, var, value) == [env EXCEPT !.vars[var] = value]

\* One statement whose condition holds
Exec(env, s) ==
    LET g == env.g
        v == env.vars
    IN  CASE s.op = "import" ->
                LET r == import_texture(g, env.d, s.path, s.non_color)
                IN  [env EXCEPT !.g = r.g, !.vars[s.var] = r.node]
          [] s.op = "texture" ->
                [env EXCEPT !.g = AddTexture(g, s.image),
                            !.vars[s.var] = Len(g.nodes) + 1]
          [] s.op = "new" ->
                [env EXCEPT !.g = NodesNew(g, s.node), !.vars[s.var] = Len(g.nodes) + 1]
          [] s.op = "link" ->
                IF v[s.from] = Unbound \/ v[s.to] = Unbound
                THEN [env EXCEPT !.g = Raise(g, "UnboundLocalError")]
                ELSE IF v[s.from] = 0 \/ v[s.to] = 0
                THEN [env EXCEPT !.g = Raise(g, "AttributeError")]
                ELSE [env EXCEPT !.g =
                        LinksNew(g, v[s.from], Socket(Outputs(g.nodes[v[s.from]].type), s.out),
                                 v[s.to], Socket(Inputs(g.nodes[v[s.to]].type), s.in))]
          [] s.op = "attr" ->
                IF v[s.var] = 0 THEN [env EXCEPT !.g = Raise(g, "AttributeError")] ELSE env
          [] s.op = "assign" -> SetVar(env, s.var, v[s.from])
          [] s.op = "none" -> SetVar(env, s.var, 0)
          [] s.op = "linked_from" ->
                IF v[s.to] = 0 THEN [env EXCEPT !.g = Raise(g, "AttributeError")]
                ELSE SetVar(env, s.var, LinkedFrom(g, v[s.to], In(g, v[s.to], s.name)))
          [] s.op = "find_link" ->
                LET hit == LinksInto(g, v[s.to], s.name, s.type)
                IN  IF hit = {} THEN env
                    ELSE SetVar(env, s.var, (CHOOSE l \in hit : TRUE).from_node)
          [] s.op = "find_node" ->
                LET hit == {i \in 1..Len(g.nodes) : g.nodes[i].type = s.type}
                IN  IF hit = {} THEN env ELSE SetVar(env, s.var, Least(hit))
          [] s.op = "image_of" -> SetVar(env, s.var, g.nodes[v[s.from]].image)
          [] s.op = "noncolor_if_gray" ->
                LET img == g.nodes[v[s.var]].image
                IN  IF is_grayscale_image(g.images[img])
                    THEN [env EXCEPT !.g.images[img].colorspace = "Non-Color"]
                    ELSE env
          [] s.op = "return" -> [env EXCEPT !.done = TRUE]

\* The tests of a condition that do not hold, an unbound variable among them
Failing(env, cond) ==
    {i \in 1..Len(cond) :
        \/ env.vars[cond[i].var] = Unbound
        \/ (env.vars[cond[i].var] # 0) # cond[i].truth}

\* One statement: nothing after a return or an exception; the tests of its
\* condition are read in order up to the first that fails, and reading an
\* unbound variable raises; the statement runs if none fails.
Step(env, s) ==
    IF env.done \/ env.g.err # "none" THEN env
    ELSE IF Failing(env, s.cond) = {} THEN Exec(env, s)
    ELSE IF env.vars[s.cond[Least(Failing(env, s.cond))].var] = Unbound
    THEN [env EXCEPT !.g = Raise(env.g, "UnboundLocalError")]
    ELSE env

RECURSIVE Run(_, _)
Run(env, body) ==
    IF body = <<>> THEN env
    ELSE CHOOSE r \in { Run(e, Tail(body)) : e \in {Step(env, Head(body))} } : TRUE

-----------------------------------------------------------------------------
(* The import methods *)

MixNode(blend, fac) == Node("MIX_RGB", 0, blend, fac)
WhiteNode == Node("RGB", 0, "none", "default")
Plain(type) == Node(type, 0, "none", "default")

\* import_normal.  normal_map_node is assigned only inside the loop over the
\* links, so `if not normal_map_node` reads an unbound variable when no link
\* ends at the Normal input.
import_normal_body(p_nrm) ==
    << ImportI("tex_image_node", p_nrm, TRUE) >>                                    \* 85
    \o If(<< Not("tex_image_node") >>, << ReturnI >>)                               \* 86-87
    \o << FindLinkI("normal_map_node", "principled_node", "Normal", "") >>          \* 89-91
    \o If(<< Not("normal_map_node") >>,
          << NewI("normal_map_node", Plain("NORMAL_MAP")) >>)                       \* 93-94
    \o << LinkI("tex_image_node", ByName("Color"),
                "normal_map_node", ByName("Color")),                                \* 96
          LinkI("normal_map_node", ByName("Normal"),
                "principled_node", ByName("Normal")) >>                             \* 97

\* The `_mai` step of import_second_alb, lines 133-149
SecondAlbMaiStep ==
    << NewI("multiply_node", MixNode("MULTIPLY", "1.0")) >>                         \* 134-136
    \o If(<< Not("tcl_node") >>,
          << NewI("white_node", WhiteNode), AttrI("principled_node") >>)            \* 139-142
    \o If(<< Is("original_color_node") >>,
          << LinkI("original_color_node", ByName("Color"),
                   "multiply_node", ByIndex(1)) >>)                                 \* 145-146
    \o << LinkI("mai_node", ByName("Color"), "multiply_node", ByIndex(0)),          \* 147
          LinkI("white_node", ByIndex(0), "multiply_node", ByIndex(2)),             \* 148
          LinkI("multiply_node", ByName("Color"),
                "principled_node", ByName("Base Color")) >>                         \* 149

\* The `_tcl` step of import_second_alb, lines 111-128
SecondAlbTclStep ==
    << NewI("mix_color_node", MixNode("MIX", "default")),                           \* 112-113
       NewI("white_node", WhiteNode),                                               \* 116-117
       AttrI("principled_node") >>                                                  \* 118
    \o If(<< Is("original_color_node") >>,
          << LinkI("original_color_node", ByName("Color"),
                   "mix_color_node", ByIndex(1)) >>)                                \* 121-122
    \o << LinkI("tcl_node", ByName("Color"), "mix_color_node", ByIndex(0)),         \* 123
          LinkI("white_node", ByIndex(0), "mix_color_node", ByIndex(2)),            \* 124
          LinkI("mix_color_node", ByName("Color"),
                "principled_node", ByName("Base Color")),                           \* 125
          AssignI("original_color_node", "mix_color_node") >>                       \* 128

\* import_second_alb with `elif mai_node:` for the second step
import_second_alb_body_elif(p_tcl, p_mai) ==
    << AttrI("principled_node"),
       LinkedFromI("original_color_node", "principled_node", "Base Color"),
       ImportI("tcl_node", p_tcl, TRUE) >>
    \o If(<< Is("tcl_node") >>, SecondAlbTclStep)
    \o << ImportI("mai_node", p_mai, TRUE) >>
    \o If(<< Not("tcl_node"), Is("mai_node") >>, SecondAlbMaiStep)

\* import_second_alb
import_second_alb_body(p_tcl, p_mai) ==
    << AttrI("principled_node"),                                                    \* 105
       LinkedFromI("original_color_node", "principled_node", "Base Color"),         \* 106
       ImportI("tcl_node", p_tcl, TRUE) >>                                          \* 109
    \o If(<< Is("tcl_node") >>, SecondAlbTclStep)                                   \* 110
    \o << ImportI("mai_node", p_mai, TRUE) >>                                       \* 131
    \o If(<< Is("mai_node") >>, SecondAlbMaiStep)                                   \* 132

\* The end of import_second_shader with no search for the material output:
\* one is always created
SecondShaderOutput_no_search ==
    << NewI("output_node", Plain("OUTPUT_MATERIAL")),
       LinkI("add_shader_node", ByName("Shader"), "output_node", ByName("Surface")) >>
    \o If(<< Is("thc_node") >>,
          << LinkI("thc_node", ByName("Color"), "mix_shader_node", ByName("Fac")) >>)

\* import_second_shader from the search for the material output on
SecondShaderOutput ==
    << NoneI("output_node"),                                                        \* 206
       FindNodeI("output_node", "OUTPUT_MATERIAL") >>                               \* 207-210
    \o If(<< Not("output_node") >>,
          << NewI("output_node", Plain("OUTPUT_MATERIAL")) >>)                      \* 212-213
    \o << LinkI("add_shader_node", ByName("Shader"),
                "output_node", ByName("Surface")) >>                                \* 215
    \o If(<< Is("thc_node") >>,
          << LinkI("thc_node", ByName("Color"),
                   "mix_shader_node", ByName("Fac")) >>)                            \* 217-218

\* import_second_shader inside `if trm_node:`, lines 162-203
SecondShaderMix ==
    << NewI("mix_color_node", MixNode("MULTIPLY", "1.0")),                          \* 166-168
       NewI("white_node", WhiteNode),                                               \* 171-172
       AttrI("principled_node"),                                                    \* 173
       LinkI("trm_node", ByName("Color"), "mix_color_node", ByIndex(1)),            \* 176
       LinkI("white_node", ByIndex(0), "mix_color_node", ByIndex(2)),               \* 177
       NewI("translucent_node", Plain("BSDF_TRANSLUCENT")),                         \* 180
       LinkI("mix_color_node", ByName("Color"),
             "translucent_node", ByName("Color")),                                  \* 181
       NoneI("normal_map_node"),                                                    \* 184
       FindLinkI("normal_map_node", "principled_node", "Normal", "NORMAL_MAP") >>   \* 185-190
    \o If(<< Is("normal_map_node") >>,
          << LinkI("normal_map_node", ByName("Normal"),
                   "translucent_node", ByName("Normal")) >>)                        \* 192-193
    \o << NewI("mix_shader_node", Node("MIX_SHADER", 0, "none", "1.0")),            \* 196-197
          LinkI("translucent_node", ByName("BSDF"), "mix_shader_node", ByIndex(1)), \* 198
          NewI("add_shader_node", Plain("ADD_SHADER")),                             \* 201
          LinkI("principled_node", ByName("BSDF"), "add_shader_node", ByIndex(0)),  \* 202
          LinkI("mix_shader_node", ByName("Shader"),
                "add_shader_node", ByIndex(1)) >>                                   \* 203

\* import_second_shader with the `_thc` texture imported inside `if trm_node:`
import_second_shader_body_thc_inside(p_trm, p_thc) ==
    << ImportI("trm_node", p_trm, FALSE) >>
    \o If(<< Is("trm_node") >>,
          << ImportI("thc_node", p_thc, TRUE) >> \o SecondShaderMix \o SecondShaderOutput)

\* import_second_shader
import_second_shader_body(p_trm, p_thc) ==
    << ImportI("trm_node", p_trm, FALSE),                                           \* 157
       ImportI("thc_node", p_thc, TRUE) >>                                          \* 159
    \o If(<< Is("trm_node") >>, SecondShaderMix \o SecondShaderOutput)              \* 161

\* import_emission inside `if emission_node and emission_node.image:`
EmissionMix ==
    << NonColorIfGrayI("emission_node"),                                            \* 250-251
       NewI("mix_node", MixNode("MULTIPLY", "1.0")),                                \* 253-255
       LinkedFromI("base_color_node", "principled_node", "Base Color") >>           \* 257-258
    \o If(<< Is("base_color_node") >>,
          << LinkI("base_color_node", ByName("Color"), "mix_node", ByIndex(1)) >>)  \* 259
    \o << LinkI("emission_node", ByName("Color"), "mix_node", ByIndex(2)),          \* 260
          LinkI("mix_node", ByName("Color"),
                "principled_node", ByName("Emission Color")) >>                     \* 261

\* import_emission that creates its mix node before it looks for a source
import_emission_body_mix_first(p_emm, p_emi) ==
    If(<< Not("principled_node") >>, << ReturnI >>)
    \o << NewI("mix_node", MixNode("MULTIPLY", "1.0")),
          NoneI("emission_node"),
          FindLinkI("emission_node", "principled_node", "Emission Color", "TEX_IMAGE") >>
    \o If(<< Not("emission_node") >>, << ImportI("emission_node", p_emm, FALSE) >>)
    \o If(<< Not("emission_node") >>, << ImportI("emission_node", p_emi, FALSE) >>)
    \o << NoneI("emission_image") >>
    \o If(<< Is("emission_node") >>, << ImageOfI("emission_image", "emission_node") >>)
    \o If(<< Is("emission_node"), Is("emission_image") >>, EmissionMix)

\* import_emission that tries `_emi` before `_emm`
import_emission_body_emi_first(p_emm, p_emi) ==
    If(<< Not("principled_node") >>, << ReturnI >>)
    \o << NoneI("emission_node"),
          FindLinkI("emission_node", "principled_node", "Emission Color", "TEX_IMAGE") >>
    \o If(<< Not("emission_node") >>, << ImportI("emission_node", p_emi, FALSE) >>)
    \o If(<< Not("emission_node") >>, << ImportI("emission_node", p_emm, FALSE) >>)
    \o << NoneI("emission_image") >>
    \o If(<< Is("emission_node") >>, << ImageOfI("emission_image", "emission_node") >>)
    \o If(<< Is("emission_node"), Is("emission_image") >>, EmissionMix)

\* import_emission.  `emission_node and emission_node.image` reads the image
\* only of a node.
import_emission_body(p_emm, p_emi) ==
    If(<< Not("principled_node") >>, << ReturnI >>)                                 \* 231-232
    \o << NoneI("emission_node"),                                                   \* 235
          FindLinkI("emission_node", "principled_node",
                    "Emission Color", "TEX_IMAGE") >>                               \* 236-240
    \o If(<< Not("emission_node") >>, << ImportI("emission_node", p_emm, FALSE) >>) \* 243-244
    \o If(<< Not("emission_node") >>, << ImportI("emission_node", p_emi, FALSE) >>) \* 246-247
    \o << NoneI("emission_image") >>
    \o If(<< Is("emission_node") >>, << ImageOfI("emission_image", "emission_node") >>)
    \o If(<< Is("emission_node"), Is("emission_image") >>, EmissionMix)             \* 249

\* The graph each method leaves
import_normal(g, P, d, p_nrm) == Run(Env(g, P, d), import_normal_body(p_nrm)).g
import_second_alb(g, P, d, p_tcl, p_mai) ==
    Run(Env(g, P, d), import_second_alb_body(p_tcl, p_mai)).g
import_second_shader(g, P, d, p_trm, p_thc) ==
    Run(Env(g, P, d), import_second_shader_body(p_trm, p_thc)).g
import_emission(g, P, d, p_emm, p_emi) ==
    Run(Env(g, P, d), import_emission_body(p_emm, p_emi)).g

-----------------------------------------------------------------------------
(* The materials and directories the processor is run on *)

\* Bounds of the model
MaxCreated == 2 \* a method is called only while fewer nodes than this were added
MaxFiles == 2   \* the most files a directory holds
MaxTex   == 2   \* the most image-texture nodes of a material in SpecBase

\* RGBA pixel data, flattened as image.pixels is
GrayPixels      == <<1, 1, 1, 0>>
BluePixels      == <<1, 1, 0, 1>>
GrayThenColor   == <<0, 0, 0, 1, 0, 1, 0, 1>>

File(name, pixels) == [name |-> name, pixels |-> pixels]

\* The files a directory may hold: one per suffix for base "C", the normal
\* map in upper case, and the emission maps in a gray and a coloured version.
Files ==
    { File(<<"C">> \o <<"_","N","R","M">> \o PNG, BluePixels),
      File(<<"C">> \o TCL \o PNG, GrayPixels),
      File(<<"C">> \o MAI \o PNG, GrayPixels),
      File(<<"C">> \o TRM \o PNG, BluePixels),
      File(<<"C">> \o THC \o PNG, GrayPixels),
      File(<<"C">> \o EMM \o PNG, GrayPixels),
      File(<<"C">> \o EMM \o PNG, BluePixels),
      File(<<"c">> \o <<"_","E","m","i">> \o PNG, GrayThenColor) }

Directory(readable, files) ==
    [path |-> <<"t">>, readable |-> readable, files |-> files]

\* A directory holds each name once.
Directories ==
    { Directory(TRUE, fs) : fs \in
        { x \in SUBSET Files :
            /\ Cardinality(x) <= MaxFiles
            /\ \A f1, f2 \in x : f1.name = f2.name => f1 = f2 } }
    \cup { Directory(FALSE, {}) }

AlbImage == Image(<<"t","/">> \o <<"C">> \o ALB \o PNG, BluePixels)
EmmImage == Image(<<"t","/">> \o <<"C">> \o EMM \o PNG, GrayPixels)

\* A material's graph: a Principled BSDF or none, a material output (free or
\* driven by the BSDF), an albedo texture (into Base Color when there is a
\* BSDF), a normal-map or bump node into Normal, and an image texture (with
\* or without an image) or a colour node into Emission Color.
InitialGraphBody(hasP, output, base, normal, emission) ==
    (IF hasP THEN << NewI("principled_node", Plain("BSDF_PRINCIPLED")) >> ELSE << >>)
    \o (IF output = "none" THEN << >>
        ELSE << NewI("output_node", Plain("OUTPUT_MATERIAL")) >>)
    \o (IF output = "linked"
        THEN << LinkI("principled_node", ByName("BSDF"),
                      "output_node", ByName("Surface")) >>
        ELSE << >>)
    \o (IF base = "none" THEN << >> ELSE << TextureI("base_color_node", AlbImage) >>)
    \o (IF base = "tex" /\ hasP
        THEN << LinkI("base_color_node", ByName("Color"),
                      "principled_node", ByName("Base Color")) >>
        ELSE << >>)
    \o (IF normal = "none" THEN << >>
        ELSE << NewI("normal_map_node", Plain(normal)),
                LinkI("normal_map_node", ByName("Normal"),
                      "principled_node", ByName("Normal")) >>)
    \o (CASE emission = "none" -> << >>
          [] emission = "tex" -> << TextureI("emission_node", EmmImage) >>
          [] emission = "tex_noimage" -> << NewI("emission_node", Plain("TEX_IMAGE")) >>
          [] emission = "rgb" -> << NewI("emission_node", WhiteNode) >>)
    \o (IF emission = "none" THEN << >>
        ELSE << LinkI("emission_node", ByName("Color"),
                      "principled_node", ByName("Emission Color")) >>)

InitialGraph(hasP, output, base, normal, emission) ==
    Run(Env(Graph(<<>>, {}, <<>>), 0, Directory(FALSE, {})),
        InitialGraphBody(hasP, output, base, normal, emission)).g

InitialGraphs ==
    { InitialGraph(TRUE, o, b, n, e) :
        o \in {"none", "linked"}, b \in {"none", "tex"},
        n \in {"none", "NORMAL_MAP", "BUMP"},
        e \in {"none", "tex", "tex_noimage", "rgb"} }
    \cup
    { InitialGraph(FALSE, o, b, "none", "none") :
        o \in {"none", "free"}, b \in {"none", "tex"} }

MaterialName == <<"C", ".", "0", "0", "1">>

NoCall == [op |-> "none", suffix |-> <<>>, non_color |-> FALSE]

\* The state __init__ leaves
Init ==
    /\ phase = "ready"
    /\ material = [name |-> MaterialName]
    /\ \E g \in InitialGraphs :
        /\ nodes = g.nodes
        /\ links = g.links
        /\ images = g.images
        /\ base_name = BaseNameOf(material, g.nodes, g.images)
        /\ principled_node = find_principled_node(g.nodes)
        /\ prev = [nodes |-> g.nodes, links |-> g.links, images |-> g.images]
    /\ dir \in Directories
    /\ call = NoCall
    /\ ret = 0
    /\ err = "none"
    /\ created = 0

-----------------------------------------------------------------------------
(* The calls *)

Current == Graph(nodes, links, images)

CanCall == phase = "ready" /\ created < MaxCreated

\* The state a call leaves: the graph as the method left it, the exception
\* it raised if any, and the record of the call.
Finish(g, op, sfx, non_color, r) ==
    /\ nodes' = g.nodes
    /\ links' = g.links
    /\ images' = g.images
    /\ err' = g.err
    /\ created' = created + (Len(g.nodes) - Len(nodes))
    /\ call' = [op |-> op, suffix |-> sfx, non_color |-> non_color]
    /\ ret' = r
    /\ prev' = [nodes |-> nodes, links |-> links, images |-> images]
    /\ UNCHANGED <<phase, material, dir, base_name, principled_node>>

\* The suffixes import_texture is called with directly, by either colour flag
TextureSuffixes == {NRM}

ImportTexture ==
    /\ CanCall
    /\ \E sfx \in TextureSuffixes, non_color \in BOOLEAN :
       \E p \in find_texture_file(dir, base_name.val, sfx) :
       \E r \in { import_texture(Current, dir, p, non_color) } :
          Finish(r.g, "import_texture", sfx, non_color, r.node)

ImportNormal ==
    /\ CanCall
    /\ \E p \in find_texture_file(dir, base_name.val, NRM) :
       \E g \in { import_normal(Current, principled_node, dir, p) } :
          Finish(g, "import_normal", <<>>, FALSE, 0)

ImportSecondAlb ==
    /\ CanCall
    /\ \E p_tcl \in find_texture_file(dir, base_name.val, TCL),
          p_mai \in find_texture_file(dir, base_name.val, MAI) :
       \E g \in { import_second_alb(Current, principled_node, dir, p_tcl, p_mai) } :
          Finish(g, "import_second_alb", <<>>, FALSE, 0)

ImportSecondShader ==
    /\ CanCall
    /\ \E p_trm \in find_texture_file(dir, base_name.val, TRM),
          p_thc \in find_texture_file(dir, base_name.val, THC) :
       \E g \in { import_second_shader(Current, principled_node, dir, p_trm, p_thc) } :
          Finish(g, "import_second_shader", <<>>, FALSE, 0)

ImportEmission ==
    /\ CanCall
    /\ \E p_emm \in find_texture_file(dir, base_name.val, EMM),
          p_emi \in find_texture_file(dir, base_name.val, EMI) :
       \E g \in { import_emission(Current, principled_node, dir, p_emm, p_emi) } :
          Finish(g, "import_emission", <<>>, FALSE, 0)

Next ==
    \/ ImportTexture
    \/ ImportNormal
    \/ ImportSecondAlb
    \/ ImportSecondShader
    \/ ImportEmission

Spec == Init /\ [][Next]_vars

-----------------------------------------------------------------------------
(* Construction on its own: __init__ run on materials whose image textures   *)
(* carry all kinds of file names                                             *)

\* File paths of the image-texture nodes of a material; <<>> is a node that
\* holds no image.
TexturePaths ==
    { <<"t","/">> \o <<"C">> \o ALB \o PNG,                  \* t/C_alb.png
      <<"D">> \o <<"_","A","L","B">> \o PNG,                 \* D_ALB.png
      <<"E">> \o EMM \o PNG,                                 \* E_emm.png
      ALB \o PNG,                                            \* _alb.png
      <<"F">> \o EMI \o <<"_","A","l","b">> \o PNG,          \* F_emi_Alb.png
      <<"x">> \o ALB \o <<"/">> \o <<"G">> \o PNG,           \* x_alb/G.png
      <<"H">> \o ALB \o ALB \o PNG,                          \* H_alb_alb.png
      <<>> }

MaterialNames == { MaterialName, <<"M">> }

\* All sequences over S of length at most n
SeqsUpTo(S, n) == UNION { [1..k -> S] : k \in 0..n }

\* The image-texture nodes of a material, one per path
AddTextures(g, paths) ==
    Run(Env(g, 0, Directory(FALSE, {})),
        [i \in 1..Len(paths) |->
            IF paths[i] = <<>> THEN NewI("tex_image_node", Plain("TEX_IMAGE"))
            ELSE TextureI("tex_image_node", Image(paths[i], BluePixels))]).g

\* A material before __init__: its image textures, before or after its
\* Principled BSDF when it has one
InitBase ==
    /\ phase = "new"
    /\ material \in { [name |-> n] : n \in MaterialNames }
    /\ \E paths \in SeqsUpTo(TexturePaths, MaxTex), where \in {"none", "first", "last"} :
       \E g1 \in { IF where = "first"
                   THEN NodesNew(Graph(<<>>, {}, <<>>),
                                 Node("BSDF_PRINCIPLED", 0, "none", "default"))
                   ELSE Graph(<<>>, {}, <<>>) } :
       \E g2 \in { AddTextures(g1, paths) } :
       \E g \in { IF where = "last"
                  THEN NodesNew(g2, Node("BSDF_PRINCIPLED", 0, "none", "default"))
                  ELSE g2 } :
             /\ nodes = g.nodes
             /\ links = g.links
             /\ images = g.images
             /\ prev = [nodes |-> g.nodes, links |-> g.links, images |-> g.images]
    /\ dir = Directory(TRUE, {})
    /\ base_name = None
    /\ principled_node = 0
    /\ call = NoCall
    /\ ret = 0
    /\ err = "none"
    /\ created = 0

\* __init__
InitProcessor ==
    /\ phase = "new"
    /\ phase' = "ready"
    /\ base_name' = BaseNameOf(material, nodes, images)
    /\ principled_node' = find_principled_node(nodes)
    /\ call' = [op |-> "__init__", suffix |-> <<>>, non_color |-> FALSE]
    /\ UNCHANGED <<material, nodes, links, images, dir, ret, err, created, prev>>

NextBase == InitProcessor

SpecBase == InitBase /\ [][NextBase]_vars

-----------------------------------------------------------------------------
(* What the claims are stated with *)

\* Whether the directory can be listed and holds a file for the suffix
Found(sfx) ==
    /\ dir.readable
    /\ \E f \in dir.files : Lower(f.name) = Lower(base_name.val \o sfx \o PNG)

\* The paths of the directory's files for the suffix
PathsFor(sfx) ==
    { PathJoin(dir.path, f.name) :
        f \in { x \in dir.files : Lower(x.name) = Lower(base_name.val \o sfx \o PNG) } }

\* The nodes the last call created, and those of a type
NewNodes == (Len(prev.nodes) + 1)..Len(nodes)
NewOfType(type) == { i \in NewNodes : nodes[i].type = type }
NewMix(blend) == { i \in NewOfType("MIX_RGB") : nodes[i].blend = blend }

\* The last call kept every node it found as it was
NodesKept == Len(prev.nodes) <= Len(nodes) /\ SubSeq(nodes, 1, Len(prev.nodes)) = prev.nodes

GraphUnchanged == nodes = prev.nodes /\ links = prev.links /\ images = prev.images

\* The links that end at the input of node t called `name`, in a set of links
DriversOf(ls, t, name) ==
    { l \in ls : l.to_node = t /\ l.to_socket = SocketIndex(Inputs(nodes[t].type), name) }

ImportCalls ==
    {"import_normal", "import_second_alb", "import_second_shader", "import_emission"}

-----------------------------------------------------------------------------
(* C3: the base name taken from an `_alb` texture *)

\* The part of `name` before its leftmost `_alb`, in any letter case
IsAlbPrefix(name, pre) ==
    /\ Len(pre) + 4 <= Len(name)
    /\ pre = SubSeq(name, 1, Len(pre))
    /\ Lower(SubSeq(name, Len(pre) + 1, Len(pre) + 4)) = ALB
    /\ \A n \in 0..(Len(pre) - 1) : Lower(SubSeq(name, n + 1, n + 4)) # ALB

ContainsSuffix(name, sfx) ==
    \E n \in 0..(Len(name) - 4) : Lower(SubSeq(name, n + 1, n + 4)) = sfx

TextureName(i) == Basename(images[nodes[i].image].filepath)

AlbNodes ==
    { i \in 1..Len(nodes) : HasImage(nodes, i) /\ ContainsSuffix(TextureName(i), ALB) }

\* C3 as claimed: whenever some image texture's file name contains `_alb`,
\* the base name is the part of such a file name before the `_alb`.
C3_Original ==
    (phase = "ready" /\ AlbNodes # {}) =>
        \E i \in AlbNodes : base_name.some /\ IsAlbPrefix(TextureName(i), base_name.val)

\* C3 amended: when the first image texture, in node order, whose file name
\* contains any of `_alb`, `_emm`, `_emi` contains `_alb`, the base name is
\* the part of that name before its leftmost `_alb` if that part is not
\* empty, and the material's name up to its first "." if it is empty.
C3_BaseNameFromAlb ==
    phase = "ready" =>
        \A i \in AlbNodes :
            (\A j \in 1..(i - 1) : HasImage(nodes, j) =>
                \A sfx \in {ALB, EMM, EMI} : ~ContainsSuffix(TextureName(j), sfx))
            => /\ base_name.some
               /\ \/ base_name.val # <<>> /\ IsAlbPrefix(TextureName(i), base_name.val)
                  \/ /\ IsAlbPrefix(TextureName(i), <<>>)
                     /\ base_name.val = SplitDotFirst(material.name)

\* The base name was cut from an upper-case `_ALB` name that is not the
\* material's name.
C3_Witness ==
    /\ phase = "ready"
    /\ \E i \in AlbNodes :
        /\ IsAlbPrefix(TextureName(i), base_name.val)
        /\ base_name.val = <<"D">>
        /\ SubSeq(TextureName(i), 2, 5) # ALB
    /\ SplitDotFirst(material.name) # base_name.val

-----------------------------------------------------------------------------
(* C1: a material without a Principled BSDF *)

\* C1 as claimed: without a Principled BSDF each of the four imports returns
\* without raising and adds no link.
C1_Original ==
    (phase = "ready" /\ principled_node = 0 /\ call.op \in ImportCalls) =>
        (err = "none" /\ links = prev.links)

-----------------------------------------------------------------------------
(* C2: import_normal *)

\* C2 as claimed: when `_nrm` is found and nothing drives the Normal input,
\* import_normal returns without raising, creates one normal-map node and
\* links texture -> normal map -> Normal; when something drives Normal, no
\* normal-map node is created and (if the call returns) that source is linked
\* in its place.
C2_Original ==
    (call.op = "import_normal" /\ Found(NRM) /\ principled_node # 0) =>
        LET P == principled_node
            old == DriversOf(prev.links, P, "Normal")
        IN  IF old = {}
            THEN /\ err = "none"
                 /\ Cardinality(NewOfType("NORMAL_MAP")) = 1
                 /\ \E t \in NewOfType("TEX_IMAGE"), n \in NewOfType("NORMAL_MAP") :
                        /\ Link(t, 1, n, 2) \in links
                        /\ Link(n, 1, P, SocketIndex(Inputs("BSDF_PRINCIPLED"), "Normal"))
                                \in links
            ELSE /\ NewOfType("NORMAL_MAP") = {}
                 /\ err = "none" =>
                        \E t \in NewOfType("TEX_IMAGE"), l \in old :
                            /\ \E k \in 1..Len(Inputs(nodes[l.from_node].type)) :
                                    Link(t, 1, l.from_node, k) \in links
                            /\ l \in links

-----------------------------------------------------------------------------
(* C4: import_second_shader without a `_trm` texture *)

\* C4 as claimed: without `_trm`, import_second_shader leaves the graph as it
\* was, whether or not `_thc` is found.
C4_Original ==
    (call.op = "import_second_shader" /\ ~Found(TRM)) => GraphUnchanged

\* C4 amended: without `_trm`, import_second_shader returns without raising
\* and adds or replaces no link; when `_thc` is found it adds exactly one
\* node, an image texture holding the newly loaded `_thc` image as Non-Color,
\* and otherwise it leaves nodes and images as they were.
C4_NoTrmOnlyThcNode ==
    (call.op = "import_second_shader" /\ ~Found(TRM)) =>
        /\ err = "none"
        /\ links = prev.links
        /\ IF Found(THC)
           THEN /\ nodes = Append(prev.nodes,
                                  Node("TEX_IMAGE", Len(images), "none", "default"))
                /\ Len(images) = Len(prev.images) + 1
                /\ SubSeq(images, 1, Len(prev.images)) = prev.images
                /\ images[Len(images)].filepath \in PathsFor(THC)
                /\ images[Len(images)].colorspace = "Non-Color"
           ELSE GraphUnchanged

\* import_second_shader ran on a graph with a Principled BSDF, in a directory
\* with a `_thc` file and no `_trm` file.
C4_Witness ==
    /\ call.op = "import_second_shader"
    /\ ~Found(TRM)
    /\ Found(THC)
    /\ principled_node # 0
    /\ Len(nodes) = Len(prev.nodes) + 1

-----------------------------------------------------------------------------
(* C5: import_second_alb *)

BaseColor == DriversOf(links, principled_node, "Base Color")

\* C5: on a graph with a Principled BSDF, import_second_alb returns without
\* raising, creates one MIX mix node exactly when `_tcl` is found and one
\* MULTIPLY mix node exactly when `_mai` is found, and leaves Base Color
\* driven by the MULTIPLY node when `_mai` is found, by the MIX node when only
\* `_tcl` is found, and as it was when neither is found.
C5_SecondAlbMixNodes ==
    (call.op = "import_second_alb" /\ principled_node # 0) =>
        /\ err = "none"
        /\ NodesKept
        /\ Cardinality(NewMix("MIX")) = (IF Found(TCL) THEN 1 ELSE 0)
        /\ Cardinality(NewMix("MULTIPLY")) = (IF Found(MAI) THEN 1 ELSE 0)
        /\ BaseColor =
             IF Found(MAI)
             THEN { Link(m, 1, principled_node, 1) : m \in NewMix("MULTIPLY") }
             ELSE IF Found(TCL)
             THEN { Link(m, 1, principled_node, 1) : m \in NewMix("MIX") }
             ELSE DriversOf(prev.links, principled_node, "Base Color")

\* import_second_alb found both textures on a graph whose Base Color was
\* driven by the albedo texture.
C5_Witness ==
    /\ call.op = "import_second_alb"
    /\ principled_node # 0
    /\ Found(TCL) /\ Found(MAI)
    /\ DriversOf(prev.links, principled_node, "Base Color") # {}
    /\ \E m \in NewMix("MULTIPLY") : BaseColor = {Link(m, 1, principled_node, 1)}

-----------------------------------------------------------------------------
(* C6: import_emission with nothing to import *)

\* An image-texture node drove Emission Color before the last call
EmissionTextureBefore ==
    \E l \in DriversOf(prev.links, principled_node, "Emission Color") :
        prev.nodes[l.from_node].type = "TEX_IMAGE"

\* C6: with no `_emm` and no `_emi` file and no image texture linked into
\* Emission Color, import_emission returns without raising, creates no node
\* and leaves the links (those into Emission Color among them) and the
\* images as they were.
C6_EmissionNoOp ==
    (/\ call.op = "import_emission"
     /\ ~Found(EMM) /\ ~Found(EMI)
     /\ principled_node # 0 => ~EmissionTextureBefore) =>
        (err = "none" /\ GraphUnchanged)

\* import_emission ran with no emission file on a graph whose Emission Color
\* was driven by a colour node.
C6_Witness ==
    /\ call.op = "import_emission"
    /\ ~Found(EMM) /\ ~Found(EMI)
    /\ dir.readable /\ dir.files # {}
    /\ principled_node # 0
    /\ ~EmissionTextureBefore
    /\ DriversOf(links, principled_node, "Emission Color") # {}

-----------------------------------------------------------------------------
(* C7: import_second_shader with `_trm` and `_thc` *)

\* C7: with both textures found on a graph with a Principled BSDF,
\* import_second_shader returns without raising; it creates a material
\* output exactly when the graph had none; the Surface input of the (first)
\* material output is driven by the Shader output of the one new add-shader
\* node and by nothing else; and the Fac input of the one new mix-shader node
\* is driven by the Color output of the new `_thc` texture.
C7_SecondShaderOutput ==
    (/\ call.op = "import_second_shader"
     /\ Found(TRM) /\ Found(THC)
     /\ principled_node # 0) =>
        /\ err = "none"
        /\ NodesKept
        /\ Cardinality(NewOfType("ADD_SHADER")) = 1
        /\ Cardinality(NewOfType("MIX_SHADER")) = 1
        /\ Cardinality(NewOfType("OUTPUT_MATERIAL")) =
                (IF \E i \in 1..Len(prev.nodes) : prev.nodes[i].type = "OUTPUT_MATERIAL"
                 THEN 0 ELSE 1)
        /\ \E o \in 1..Len(nodes) :
            /\ nodes[o].type = "OUTPUT_MATERIAL"
            /\ \A i \in 1..(o - 1) : nodes[i].type # "OUTPUT_MATERIAL"
            /\ DriversOf(links, o, "Surface") =
                    { Link(a, 1, o, 1) : a \in NewOfType("ADD_SHADER") }
        /\ \E t \in NewOfType("TEX_IMAGE"), m \in NewOfType("MIX_SHADER") :
            /\ images[nodes[t].image].filepath \in PathsFor(THC)
            /\ DriversOf(links, m, "Fac") = { Link(t, 1, m, 1) }

\* import_second_shader found both textures on a graph whose material output
\* was driven by the Principled BSDF, and the add shader has taken its place.
C7_Witness ==
    /\ call.op = "import_second_shader"
    /\ Found(TRM) /\ Found(THC)
    /\ principled_node # 0
    /\ \E o \in 1..Len(prev.nodes) :
        /\ Link(principled_node, 1, o, 1) \in prev.links
        /\ Link(principled_node, 1, o, 1) \notin links
        /\ \E a \in NewOfType("ADD_SHADER") : Link(a, 1, o, 1) \in links

-----------------------------------------------------------------------------
(* C8: import_texture *)

\* C8: a call of import_texture whose file is found returns a new node, the
\* only node added, an image texture that holds a newly loaded image of that
\* file which no other node holds, and changes no link; a call whose file is
\* not found, or whose directory cannot be listed, returns False and leaves
\* the graph as it was.
C8_ImportTextureAddsOneNode ==
    call.op = "import_texture" =>
        /\ err = "none"
        /\ IF Found(call.suffix)
           THEN /\ ret = Len(prev.nodes) + 1
                /\ nodes = Append(prev.nodes,
                                  Node("TEX_IMAGE", Len(prev.images) + 1, "none", "default"))
                /\ Len(images) = Len(prev.images) + 1
                /\ SubSeq(images, 1, Len(prev.images)) = prev.images
                /\ images[Len(images)].filepath \in PathsFor(call.suffix)
                /\ \A i \in 1..Len(prev.nodes) : nodes[i].image # nodes[ret].image
                /\ links = prev.links
           ELSE ret = 0 /\ GraphUnchanged

\* Two calls of import_texture in a row found the same file: the two nodes
\* returned are different nodes and hold different images of the same path.
C8_Witness ==
    /\ call.op = "import_texture"
    /\ created = 2
    /\ ret = Len(nodes)
    /\ ret - 1 = Len(prev.nodes)
    /\ nodes[ret - 1].type = "TEX_IMAGE"
    /\ nodes[ret - 1].image # nodes[ret].image
    /\ images[nodes[ret - 1].image].filepath = images[nodes[ret].image].filepath

-----------------------------------------------------------------------------
(* C9: the colour space of an imported emission texture *)

\* Every pixel of the flattened RGBA data has equal red, green and blue
AllPixelsGray(pixels) ==
    \A k \in 0..((Len(pixels) \div 4) - 1) :
        pixels[4 * k + 1] = pixels[4 * k + 2] /\ pixels[4 * k + 2] = pixels[4 * k + 3]

\* C9: after import_emission has imported a texture, its image is Non-Color
\* if every pixel has R = G = B and keeps the sRGB interpretation it was
\* loaded with if some pixel has not.
C9_GrayscaleNonColor ==
    call.op = "import_emission" =>
        \A t \in NewOfType("TEX_IMAGE") :
            images[nodes[t].image].colorspace =
                IF AllPixelsGray(images[nodes[t].image].pixels)
                THEN "Non-Color" ELSE "sRGB"

\* import_emission imported a texture whose second pixel is coloured and
\* left it sRGB.
C9_Witness ==
    /\ call.op = "import_emission"
    /\ \E t \in NewOfType("TEX_IMAGE") :
        /\ images[nodes[t].image].pixels = GrayThenColor
        /\ images[nodes[t].image].colorspace = "sRGB"

-----------------------------------------------------------------------------
(* C10: the source import_emission chooses *)

\* The image-texture nodes the last call created that hold a file of a suffix
NewTextureOf(sfx) ==
    { t \in NewOfType("TEX_IMAGE") : images[nodes[t].image].filepath \in PathsFor(sfx) }

\* C10: on a graph with a Principled BSDF, import_emission returns without
\* raising and creates at most one image texture: none when an image texture
\* already drives Emission Color, else one for `_emm` when that file is found,
\* else one for `_emi` when that file is found.  When the source chosen holds
\* an image, the call creates one MULTIPLY mix node, whose Color2 input the
\* source's Color output feeds, and whose Color output is the only link into
\* Emission Color; when no source with an image is chosen it creates no mix
\* node.
C10_EmissionSourcePriority ==
    (call.op = "import_emission" /\ principled_node # 0) =>
        LET P == principled_node
            old == { l \in DriversOf(prev.links, P, "Emission Color") :
                        prev.nodes[l.from_node].type = "TEX_IMAGE" }
            sources ==
                IF old # {} THEN { l.from_node : l \in old }
                ELSE IF Found(EMM) THEN NewTextureOf(EMM)
                ELSE IF Found(EMI) THEN NewTextureOf(EMI)
                ELSE {}
        IN  /\ err = "none"
            /\ NodesKept
            /\ Cardinality(NewOfType("TEX_IMAGE")) =
                    (IF old = {} /\ (Found(EMM) \/ Found(EMI)) THEN 1 ELSE 0)
            /\ NewOfType("TEX_IMAGE") \subseteq sources
            /\ Len(images) = Len(prev.images) + Cardinality(NewOfType("TEX_IMAGE"))
            /\ IF \E src \in sources : nodes[src].image # 0
               THEN \E src \in sources, m \in NewMix("MULTIPLY") :
                        /\ NewOfType("MIX_RGB") = {m}
                        /\ Link(src, 1, m, 3) \in links
                        /\ DriversOf(links, P, "Emission Color") =
                                { Link(m, 1, P, SocketIndex(Inputs("BSDF_PRINCIPLED"),
                                                            "Emission Color")) }
               ELSE NewOfType("MIX_RGB") = {}

\* import_emission ran with both an `_emm` and an `_emi` file and no image
\* texture in Emission Color, and imported the `_emm` file only.
C10_Witness ==
    /\ call.op = "import_emission"
    /\ principled_node # 0
    /\ Found(EMM) /\ Found(EMI)
    /\ ~EmissionTextureBefore
    /\ NewTextureOf(EMM) # {}
    /\ NewTextureOf(EMI) = {}

====
